---- MODULE Spec2Model ----
(***************************************************************************)
(* Model of backend/ai_generator.py: AIGenerator.generate_response and     *)
(* AIGenerator._handle_gemini_function_call, one request from prompt       *)
(* assembly to the returned answer.                                        *)
(* A second, independent part models query_documents of                    *)
(* backend/tests/conftest.py, the POST /api/query handler of the test app. *)
(* A third part runs two generate_response calls on one AIGenerator, step  *)
(* by step in any interleaving.                                            *)
(*                                                                         *)
(* A Python string is a sequence of characters.  A string literal of the   *)
(* source is one character-like token holding the literal, so that         *)
(* concatenation, prefix and substring are sequence operations.  The token *)
(* Surrogate is a lone surrogate code point: the one kind of character a   *)
(* Python str can hold that UTF-8 cannot encode.                           *)
(***************************************************************************)
EXTENDS Integers, Sequences, FiniteSets, TLC

VARIABLES
    pc,                   \* position of the request
    conversation_history, \* argument of generate_response
    tools,                \* argument of generate_response
    tool_manager,         \* argument of generate_response: TRUE when supplied
    query,                \* argument of generate_response
    full_prompt,          \* local of generate_response
    gemini_tools,         \* local of generate_response
    response,             \* `response` of generate_response; once execute_tool is called,
                          \* `response` of _handle_gemini_function_call (None: not assigned)
    first_finish,         \* finish_reason of candidates[0] of the first response (0: none)
    function_call,        \* argument of _handle_gemini_function_call
    function_args,        \* local of _handle_gemini_function_call
    tool_result,          \* local of _handle_gemini_function_call
    follow_up_prompt,     \* local of _handle_gemini_function_call
    result,               \* the value generate_response returned
    return_site,          \* the block whose return statement produced it
    exception,            \* `e` of the except clause that ran
    calls,                \* the collaborator calls issued so far, in order
    endpoint_pc,          \* position of query_documents, the POST /api/query handler
    request,              \* argument of query_documents
    session_id,           \* local of query_documents
    mock_calls,           \* the calls mock_rag_system recorded, in order
    http_response,        \* what query_documents returned or raised
    generator,            \* the attributes __init__ sets on the AIGenerator
    threads               \* the locals of each of two concurrent generate_response calls

vars == <<pc, conversation_history, tools, tool_manager, query, full_prompt,
          gemini_tools, response, first_finish, function_call, function_args,
          tool_result, follow_up_prompt, result, return_site, exception, calls,
          endpoint_pc, request, session_id, mock_calls, http_response,
          generator, threads>>

\* the variables of generate_response and its handler
generator_vars ==
    <<pc, conversation_history, tools, tool_manager, query, full_prompt,
      gemini_tools, response, first_finish, function_call, function_args,
      tool_result, follow_up_prompt, result, return_site, exception, calls>>

\* the variables of query_documents
endpoint_vars == <<endpoint_pc, request, session_id, mock_calls, http_response>>

\* the variables of two concurrent requests on one AIGenerator
concurrent_vars == <<generator, threads>>

----------------------------------------------------------------------------
(* Bounds *)

\* longest candidate.content.parts list the provider returns under Spec
MaxParts == 3

\* longest candidate.content.parts list the provider returns under LiveSpec
MaxLiveParts == 1

\* longest list of tool descriptors handed to the conversion
MaxTools == 2

\* most keys in the arguments of one function call
MaxFields == 2

\* longest query, in characters, handed to the prompt assembly
MaxQueryLen == 2

----------------------------------------------------------------------------
(* Strings *)

Surrogate == "\\ud800"

Replacement == "?"

\* str(x).encode("utf-8", errors="replace").decode("utf-8")
Reencode(s) == [i \in 1..Len(s) |-> IF s[i] = Surrogate THEN Replacement ELSE s[i]]

\* Python truthiness of a str
Truthy(s) == Len(s) > 0

IsPrefix(p, s) == Len(p) <= Len(s) /\ SubSeq(s, 1, Len(p)) = p

\* Python's `sub in s`
Contains(s, sub) ==
    \E i \in 0..(Len(s) - Len(sub)) : SubSeq(s, i + 1, i + Len(sub)) = sub

----------------------------------------------------------------------------
(* String literals of ai_generator.py *)

SYSTEM_PROMPT == <<"You are an AI assistant for a course materials system. [...] Be direct and helpful in your responses.">>

PreviousConversationLabel == <<"\n\nPrevious conversation:\n">>

UserQuestionLabel == <<"\n\nUser question: ">>

FunctionResultLabel == <<"\n\nFunction call result: ">>

FollowUpInstruction == <<"\n\nBased on this information, provide a comprehensive answer:">>

MsgSafety == <<"I'm having trouble processing your question about course materials. This appears to be an educational query, so please try rephrasing it or contact support if this continues.">>

MsgRecitation == <<"I cannot provide that specific response due to content policy. Please try asking in a different way.">>

MsgOther == <<"I encountered a technical issue generating a response. Please try again with your question.">>

MsgProcessing == <<"Processing your request...">>

MsgApology == <<"I apologize, but I couldn't generate a response. Please try again.">>

MsgEncodingIssue == <<"I apologize, there was an encoding issue with the response. Please try again.">>

ErrorGeneratingPrefix == <<"Error generating response: ">>

MsgErrorGenerating == <<"Error generating response. Please try again.">>

SearchResultsPrefix == <<"Based on the search results: ">>

MsgFunctionEncodingIssue == <<"I apologize, there was an encoding issue with the function response. Please try again.">>

ErrorExecutingPrefix == <<"Error executing function: ">>

MsgErrorExecuting == <<"Error executing function. Please try again.">>

----------------------------------------------------------------------------
(* finish_reason codes *)

FINISH_STOP == 1

FINISH_SAFETY == 2

FINISH_RECITATION == 3

FINISH_OTHER == 4

FINISH_MAX_TOKENS == 5

FinishReasons == {FINISH_STOP, FINISH_SAFETY, FINISH_RECITATION, FINISH_OTHER, FINISH_MAX_TOKENS}

----------------------------------------------------------------------------
(* Python values handed to the tool executor *)

PyStr(s) == [t |-> "str", s |-> s, n |-> 0, frac |-> 0, b |-> FALSE, l |-> <<>>]

PyInt(n) == [t |-> "int", s |-> <<>>, n |-> n, frac |-> 0, b |-> FALSE, l |-> <<>>]

PyFloat(n, frac) == [t |-> "float", s |-> <<>>, n |-> n, frac |-> frac, b |-> FALSE, l |-> <<>>]

PyBool(b) == [t |-> "bool", s |-> <<>>, n |-> 0, frac |-> 0, b |-> b, l |-> <<>>]

PyList(l) == [t |-> "list", s |-> <<>>, n |-> 0, frac |-> 0, b |-> FALSE, l |-> l]

(* A value of function_call.args.fields.  attrs is the set of attributes    *)
(* hasattr finds on it; number_value is whole + frac/10; list_value holds   *)
(* the string_value of each item; repr is str(value).                       *)
ValueAttrs == {"string_value", "number_value", "bool_value", "list_value"}

Value(attrs, s, n, frac, b, l, repr) ==
    [attrs |-> attrs, string_value |-> s, number_value |-> [whole |-> n, frac |-> frac],
     bool_value |-> b, list_value |-> l, repr |-> repr]

\* a protobuf Value carries every attribute; the ones not set hold their defaults
ProtoString(s) == Value(ValueAttrs, s, 0, 0, FALSE, <<>>, <<"string_value: ">> \o s)

ProtoNumber(n, frac) == Value(ValueAttrs, <<>>, n, frac, FALSE, <<>>, <<"number_value">>)

ProtoBool(b) == Value(ValueAttrs, <<>>, 0, 0, b, <<>>, <<"bool_value">>)

ProtoList(l) == Value(ValueAttrs, <<>>, 0, 0, FALSE, l, <<"list_value">>)

\* the values a field may hold: protobuf Values of each kind, and objects
\* that carry only some of the four attributes, or none of them
FieldValues ==
    { ProtoString(<<>>), ProtoString(<<"mcp">>),
      ProtoNumber(3, 0), ProtoNumber(2, 5),
      ProtoBool(TRUE), ProtoList(<< <<"a">>, <<"b">> >>),
      Value({"bool_value"}, <<>>, 0, 0, TRUE, <<>>, <<"flag">>),
      Value({"list_value"}, <<>>, 0, 0, FALSE, << <<"a">> >>, <<"items">>),
      Value({}, <<>>, 0, 0, FALSE, <<>>, <<"opaque">>) }

\* the body of the loop over function_call.args.fields.items()
MarshalValue(v) ==
    IF "string_value" \in v.attrs /\ Truthy(v.string_value)
    THEN PyStr(v.string_value)
    ELSE IF "number_value" \in v.attrs
    THEN IF v.number_value.frac = 0
         THEN PyInt(v.number_value.whole)
         ELSE PyFloat(v.number_value.whole, v.number_value.frac)
    ELSE IF "bool_value" \in v.attrs
    THEN PyBool(v.bool_value)
    ELSE IF "list_value" \in v.attrs
    THEN PyList(v.list_value)
    ELSE PyStr(v.repr)

(* function_call.args: truthy says whether `if function_call.args` passes,  *)
(* has_fields whether it has the attribute "fields", dictable whether       *)
(* dict(args) succeeds; fields maps keys to Values, items to Python values. *)
NoKwargs == [k \in {} |-> PyInt(0)]

NoFields == [k \in {} |-> ProtoString(<<>>)]

NoArgs == [truthy |-> FALSE, has_fields |-> FALSE, dictable |-> FALSE,
           fields |-> NoFields, items |-> NoKwargs]

StructArgs(fields) == [truthy |-> TRUE, has_fields |-> TRUE, dictable |-> FALSE,
                       fields |-> fields, items |-> NoKwargs]

\* args that are a mapping without `fields`: dict(args) gives its items
MappingArgs(items) == [truthy |-> TRUE, has_fields |-> FALSE, dictable |-> TRUE,
                       fields |-> NoFields, items |-> items]

\* args that are truthy, have no `fields`, and that dict() rejects
OpaqueArgs == [truthy |-> TRUE, has_fields |-> FALSE, dictable |-> FALSE,
               fields |-> NoFields, items |-> NoKwargs]

ArgKeys == {"query", "course_name", "lesson_number"}

KeySets(max) == {ks \in SUBSET ArgKeys : Cardinality(ks) <= max}

\* every args object with at most max keys
ArgsUpTo(max) ==
    {NoArgs, OpaqueArgs}
    \cup UNION { {StructArgs(f) : f \in [ks -> FieldValues]} : ks \in KeySets(max) }
    \cup UNION { {MappingArgs(m) : m \in [ks -> {PyStr(<<"mcp">>), PyInt(2)}]} :
                    ks \in KeySets(max) \ {{}} }

\* the keys of args as the request carries them
RawKeys(args) == IF args.has_fields THEN DOMAIN args.fields ELSE DOMAIN args.items

\* faulty variant: only the fields with a non-empty string_value are kept
MarshalArgsStringsOnly(args) ==
    IF ~args.truthy THEN NoKwargs
    ELSE IF args.has_fields
    THEN [k \in {f \in DOMAIN args.fields : Truthy(args.fields[f].string_value)} |->
             PyStr(args.fields[k].string_value)]
    ELSE IF args.dictable THEN args.items
    ELSE NoKwargs

\* "Convert protobuf args to dict properly"
MarshalArgs(args) ==
    IF ~args.truthy THEN NoKwargs
    ELSE IF args.has_fields
    THEN [k \in DOMAIN args.fields |-> MarshalValue(args.fields[k])]
    ELSE IF args.dictable THEN args.items
    ELSE NoKwargs

----------------------------------------------------------------------------
(* Provider responses *)

\* part.function_call of a part that carries none (falsy)
NoFunctionCall == [present |-> FALSE, name |-> "", args |-> NoArgs]

FunctionCall(name, args) == [present |-> TRUE, name |-> name, args |-> args]

FunctionCalls ==
    { FunctionCall("search_course_content",
                   StructArgs([k \in {"query"} |-> ProtoString(<<"m", "c", "p">>)])),
      FunctionCall("get_course_outline", NoArgs) }

\* the texts a part carries: empty, well-formed, holding a lone surrogate
PartTexts == { <<>>, <<"A">>, <<"B", Surrogate>> }

TextPart(t) == [text |-> t, function_call |-> NoFunctionCall]

FunctionCallPart(fc) == [text |-> <<>>, function_call |-> fc]

Parts == {TextPart(t) : t \in PartTexts} \cup {FunctionCallPart(fc) : fc \in FunctionCalls}

PartLists(max) == UNION {[1..n -> Parts] : n \in 0..max}

\* candidates[0]: it carries the attribute finish_reason; candidate.content is
\* None when has_content is FALSE
Candidates(max) ==
    {[finish_reason |-> fr, has_content |-> TRUE, parts |-> ps] :
        fr \in FinishReasons, ps \in PartLists(max)}
    \cup {[finish_reason |-> fr, has_content |-> FALSE, parts |-> <<>>] : fr \in FinishReasons}

\* response.text: the attribute may be missing, reading it may raise
QuickTexts ==
    { [has |-> FALSE, raises |-> FALSE, value |-> <<>>],
      [has |-> TRUE, raises |-> TRUE, value |-> <<>>],
      [has |-> TRUE, raises |-> FALSE, value |-> <<>>],
      [has |-> TRUE, raises |-> FALSE, value |-> <<"Q">>],
      [has |-> TRUE, raises |-> FALSE, value |-> <<"Q", Surrogate>>] }

\* generate_content returned None
NoneResponse == [is_none |-> TRUE, candidates_is_none |-> TRUE, candidates |-> <<>>,
                 text |-> [has |-> FALSE, raises |-> FALSE, value |-> <<>>]]

\* what generate_content may return: None, or an object whose candidates are
\* None, the empty list, or a list whose element 0 is any candidate with at
\* most max parts
ResponsesUpTo(max) ==
    {NoneResponse}
    \cup {[is_none |-> FALSE, candidates_is_none |-> TRUE, candidates |-> <<>>, text |-> q] :
            q \in QuickTexts}
    \cup {[is_none |-> FALSE, candidates_is_none |-> FALSE, candidates |-> cs, text |-> q] :
            cs \in {<<>>} \cup {<<c>> : c \in Candidates(max)}, q \in QuickTexts}

Responses == ResponsesUpTo(MaxParts)

LiveResponses == ResponsesUpTo(MaxLiveParts)

----------------------------------------------------------------------------
(* Exceptions raised by the collaborators *)

\* type is the class the except clauses match; msg is str(e); str_raises says
\* that str(e) itself raises
Exceptions ==
    { [type |-> "Exception", msg |-> <<"disk full">>, str_raises |-> FALSE],
      [type |-> "Exception", msg |-> <<"bad ", Surrogate>>, str_raises |-> FALSE],
      [type |-> "Exception", msg |-> <<>>, str_raises |-> TRUE],
      [type |-> "UnicodeEncodeError", msg |-> <<"codec can't encode">>, str_raises |-> FALSE] }

\* no except clause has run
NoException == [type |-> "none", msg |-> <<>>, str_raises |-> FALSE]

\* `response.candidates` on a response that is None
NoneAttributeError ==
    [type |-> "Exception", msg |-> <<"'NoneType' object has no attribute 'candidates'">>,
     str_raises |-> FALSE]

----------------------------------------------------------------------------
(* The arguments of generate_response *)

Queries == { <<"What is MCP?">> }

\* conversation_history: None, "" or a summary
NoHistory == [given |-> FALSE, value |-> <<>>]

Histories == { NoHistory, [given |-> TRUE, value |-> <<>>], [given |-> TRUE, value |-> <<"User: hi">>] }

SearchTool == [name |-> "search_course_content", description |-> "Search course materials",
               input_schema |-> "schema"]

\* tools: None, [] or a list of descriptors
NoTools == [given |-> FALSE, items |-> <<>>]

ToolLists == { NoTools, [given |-> TRUE, items |-> <<>>], [given |-> TRUE, items |-> <<SearchTool>>] }

\* descriptors a caller may register: name, description, input_schema
ToolDescriptors ==
    [name : {"search_course_content", "get_course_outline"},
     description : {"Search course materials", "Get course outline"},
     input_schema : {"schema", "outline_schema"}]

\* every list of at most max descriptors, repeats included
DescriptorListsUpTo(max) ==
    UNION { [1..n -> ToolDescriptors] : n \in 0..max }

\* tools as a caller may pass them to the conversion
DescriptorLists == { [given |-> TRUE, items |-> ts] : ts \in DescriptorListsUpTo(MaxTools) }

\* the characters of a query: plain text, a lone surrogate, and the two labels
\* of the prompt themselves
QueryChars ==
    {"What is MCP?", Surrogate, "\n\nUser question: ", "\n\nPrevious conversation:\n"}

\* every query of at most max characters, the empty one included
QueriesUpTo(max) == UNION { [1..n -> QueryChars] : n \in 0..max }

\* conversation_history for the prompt assembly: None, "", and summaries
PromptHistories ==
    { NoHistory, [given |-> TRUE, value |-> <<>>],
      [given |-> TRUE, value |-> <<"User: hi">>],
      [given |-> TRUE, value |-> <<"User: hi", Surrogate>>],
      [given |-> TRUE, value |-> <<"\n\nUser question: ">>] }

\* str(tool_result) of what execute_tool returns
ToolResults == { <<>>, <<"found content Y">> }

----------------------------------------------------------------------------
(* generate_response: prompt and tool schema *)

\* faulty variant: the conversation section comes after the question
BuildPromptHistoryLast(q, h) ==
    SYSTEM_PROMPT
    \o UserQuestionLabel \o q
    \o (IF h.given /\ Truthy(h.value) THEN PreviousConversationLabel \o h.value ELSE <<>>)

\* full_prompt of generate_response
BuildPrompt(q, h) ==
    SYSTEM_PROMPT
    \o (IF h.given /\ Truthy(h.value) THEN PreviousConversationLabel \o h.value ELSE <<>>)
    \o UserQuestionLabel \o q

\* faulty variant: the declarations come out in reverse order
ConvertToolsReversed(ts) ==
    [i \in 1..Len(ts) |->
        [function_declarations |->
            << [name |-> ts[Len(ts) + 1 - i].name,
                description |-> ts[Len(ts) + 1 - i].description,
                parameters |-> ts[Len(ts) + 1 - i].input_schema] >>]]

\* _convert_tools_to_gemini_format
ConvertTools(ts) ==
    [i \in 1..Len(ts) |->
        [function_declarations |->
            << [name |-> ts[i].name, description |-> ts[i].description,
                parameters |-> ts[i].input_schema] >>]]

\* faulty variant: the descriptors are never converted
GeminiToolsNever(t) == [given |-> FALSE, items |-> <<>>]

\* gemini_tools of generate_response: None unless `tools` is truthy
GeminiTools(t) ==
    IF t.given /\ Len(t.items) > 0
    THEN [given |-> TRUE, items |-> ConvertTools(t.items)]
    ELSE [given |-> FALSE, items |-> <<>>]

\* `if gemini_tools:`
WithTools(gt) == gt.given /\ Len(gt.items) > 0

----------------------------------------------------------------------------
(* Reading a response *)

Returned(v) == [returned |-> TRUE, value |-> v]

NotReturned == [returned |-> FALSE, value |-> <<>>]

\* `response and response.candidates and len(response.candidates) > 0`
HasCandidates(r) == ~r.is_none /\ ~r.candidates_is_none /\ Len(r.candidates) > 0

\* `candidate.content and candidate.content.parts`
HasParts(c) == c.has_content /\ Len(c.parts) > 0

\* index of the first part with `hasattr(part, "text") and part.text`, 0 when none
FirstTextIndex(ps) ==
    IF \E i \in 1..Len(ps) : Truthy(ps[i].text)
    THEN CHOOSE i \in 1..Len(ps) :
            /\ Truthy(ps[i].text)
            /\ \A j \in 1..(i - 1) : ~Truthy(ps[j].text)
    ELSE 0

\* faulty variant: the last part that carries a function call is taken
LastFunctionCallIndex(ps) ==
    IF \E i \in 1..Len(ps) : ps[i].function_call.present
    THEN CHOOSE i \in 1..Len(ps) :
            /\ ps[i].function_call.present
            /\ \A j \in (i + 1)..Len(ps) : ~ps[j].function_call.present
    ELSE 0

\* index of the first part with `hasattr(part, "function_call") and part.function_call`
FirstFunctionCallIndex(ps) ==
    IF \E i \in 1..Len(ps) : ps[i].function_call.present
    THEN CHOOSE i \in 1..Len(ps) :
            /\ ps[i].function_call.present
            /\ \A j \in 1..(i - 1) : ~ps[j].function_call.present
    ELSE 0

\* faulty variant: every finish_reason but STOP counts as blocked
IsBlockedUnlessStop(fr) == fr # FINISH_STOP

\* the finish_reason checks: one of the three values the extraction tests for
IsBlocked(fr) == fr \in {FINISH_SAFETY, FINISH_RECITATION, FINISH_OTHER}

\* faulty variant: every blocked status gets the message of SAFETY
BlockedMessageSafetyOnly(fr) == MsgSafety

\* the message returned for finish_reason 2, 3 or 4
BlockedMessage(fr) ==
    IF fr = FINISH_SAFETY THEN MsgSafety
    ELSE IF fr = FINISH_RECITATION THEN MsgRecitation
    ELSE MsgOther

RECURSIVE JoinTexts(_)
JoinTexts(ps) == IF ps = <<>> THEN <<>> ELSE Head(ps).text \o JoinTexts(Tail(ps))

\* faulty variant: the texts of all parts joined instead of the first one
CandidateTextJoined(r) ==
    IF HasCandidates(r)
    THEN LET candidate == r.candidates[1]
         IN  IF IsBlocked(candidate.finish_reason)
             THEN Returned(BlockedMessage(candidate.finish_reason))
             ELSE IF HasParts(candidate) /\ FirstTextIndex(candidate.parts) > 0
             THEN Returned(Reencode(JoinTexts(candidate.parts)))
             ELSE NotReturned
    ELSE NotReturned

\* "Safely extract text from response": the finish_reason checks, then the
\* first part with text, re-encoded
CandidateText(r) ==
    IF HasCandidates(r)
    THEN LET candidate == r.candidates[1]
         IN  IF IsBlocked(candidate.finish_reason)
             THEN Returned(BlockedMessage(candidate.finish_reason))
             ELSE IF HasParts(candidate) /\ FirstTextIndex(candidate.parts) > 0
             THEN Returned(Reencode(candidate.parts[FirstTextIndex(candidate.parts)].text))
             ELSE NotReturned
    ELSE NotReturned

\* "If no text content, check if there are function calls without text"
FunctionCallNotice(r) ==
    IF /\ HasCandidates(r)
       /\ HasParts(r.candidates[1])
       /\ FirstFunctionCallIndex(r.candidates[1].parts) > 0
    THEN Returned(MsgProcessing)
    ELSE NotReturned

\* faulty variant: an exception of response.text ends in the generic error
QuickTextReportsError(r) ==
    IF ~r.is_none /\ r.text.has /\ r.text.raises
    THEN Returned(MsgErrorGenerating)
    ELSE IF ~r.is_none /\ r.text.has /\ Truthy(r.text.value)
    THEN Returned(Reencode(r.text.value))
    ELSE NotReturned

\* "Fallback - try direct text access with error handling": an exception of
\* response.text is swallowed
QuickText(r) ==
    IF ~r.is_none /\ r.text.has /\ ~r.text.raises /\ Truthy(r.text.value)
    THEN Returned(Reencode(r.text.value))
    ELSE NotReturned

\* faulty variant: generate_response without the response.text fallback
ExtractFirstNoQuickText(r) ==
    IF CandidateText(r).returned THEN CandidateText(r).value
    ELSE IF FunctionCallNotice(r).returned THEN FunctionCallNotice(r).value
    ELSE MsgApology

\* generate_response from "Safely extract text" to the default message
ExtractFirst(r) ==
    IF CandidateText(r).returned THEN CandidateText(r).value
    ELSE IF FunctionCallNotice(r).returned THEN FunctionCallNotice(r).value
    ELSE IF QuickText(r).returned THEN QuickText(r).value
    ELSE MsgApology

\* faulty variant: the handler ends with the default message of generate_response
ExtractSecondApology(r, tr) ==
    IF CandidateText(r).returned THEN CandidateText(r).value
    ELSE IF QuickText(r).returned THEN QuickText(r).value
    ELSE MsgApology

\* faulty variant: a blocked second response falls back to the tool result
ExtractSecondBlockedFallsBack(r, tr) ==
    IF HasCandidates(r) /\ IsBlocked(r.candidates[1].finish_reason)
    THEN SearchResultsPrefix \o tr
    ELSE IF CandidateText(r).returned THEN CandidateText(r).value
    ELSE IF QuickText(r).returned THEN QuickText(r).value
    ELSE SearchResultsPrefix \o tr

\* _handle_gemini_function_call from "Safely extract text" to the fallback
ExtractSecond(r, tr) ==
    IF CandidateText(r).returned THEN CandidateText(r).value
    ELSE IF QuickText(r).returned THEN QuickText(r).value
    ELSE SearchResultsPrefix \o tr

\* faulty variant: the condition without `and tool_manager`
FunctionCallingEnabledNoManager(r, tm) ==
    /\ HasCandidates(r)
    /\ HasParts(r.candidates[1])

\* "Handle function calling if needed": the condition of the `if`
FunctionCallingEnabled(r, tm) ==
    /\ HasCandidates(r)
    /\ HasParts(r.candidates[1])
    /\ tm

\* faulty variant: a function call is handed over only when no part has text
RequestedCallUnlessText(r, tm) ==
    IF /\ FunctionCallingEnabled(r, tm)
       /\ FirstFunctionCallIndex(r.candidates[1].parts) > 0
       /\ FirstTextIndex(r.candidates[1].parts) = 0
    THEN r.candidates[1].parts[FirstFunctionCallIndex(r.candidates[1].parts)].function_call
    ELSE NoFunctionCall

\* the function_call the loop hands to _handle_gemini_function_call
RequestedCall(r, tm) ==
    IF FunctionCallingEnabled(r, tm) /\ FirstFunctionCallIndex(r.candidates[1].parts) > 0
    THEN r.candidates[1].parts[FirstFunctionCallIndex(r.candidates[1].parts)].function_call
    ELSE NoFunctionCall

----------------------------------------------------------------------------
(* The except clauses *)

\* faulty variant: generate_response without its `except Exception` clause
GenerateCatchesEncodingOnly(e) == e.type = "UnicodeEncodeError"

\* generate_response: `except UnicodeEncodeError` / `except Exception`
GenerateCatches(e) == e.type \in {"UnicodeEncodeError", "Exception"}

\* faulty variant: the except clause answers with the default apology
GenerateExceptApology(e) == MsgApology

\* generate_response: the string its except clauses return
GenerateExcept(e) ==
    IF e.type = "UnicodeEncodeError" THEN MsgEncodingIssue
    ELSE IF e.str_raises THEN MsgErrorGenerating
    ELSE ErrorGeneratingPrefix \o Reencode(e.msg)

\* faulty variant: the handler without its `except Exception` clause
HandlerCatchesEncodingOnly(e) == e.type = "UnicodeEncodeError"

\* _handle_gemini_function_call: `except UnicodeEncodeError` / `except Exception`
HandlerCatches(e) == e.type \in {"UnicodeEncodeError", "Exception"}

\* faulty variant: the message of every exception, as it is
HandlerExceptRaw(e) == ErrorExecutingPrefix \o e.msg

HandlerExcept(e) ==
    IF e.type = "UnicodeEncodeError" THEN MsgFunctionEncodingIssue
    ELSE IF e.str_raises THEN MsgErrorExecuting
    ELSE ErrorExecutingPrefix \o Reencode(e.msg)

\* faulty variant: the handler acts on a function call of the second response too
FollowUpCallRecursive(r) ==
    IF HasCandidates(r) /\ HasParts(r.candidates[1])
       /\ FirstFunctionCallIndex(r.candidates[1].parts) > 0
    THEN r.candidates[1].parts[FirstFunctionCallIndex(r.candidates[1].parts)].function_call
    ELSE NoFunctionCall

\* the function call _handle_gemini_function_call acts on in the second
\* response: none, the handler reads the second response for text only
FollowUpCall(r) == NoFunctionCall

\* faulty variant: the follow-up prompt is built from the tool result alone
FollowUpPromptResultOnly(original_prompt, tr) ==
    FunctionResultLabel \o tr \o FollowUpInstruction

\* follow_up_prompt of _handle_gemini_function_call
FollowUpPrompt(original_prompt, tr) ==
    original_prompt \o FunctionResultLabel \o tr \o FollowUpInstruction

----------------------------------------------------------------------------
(* The request *)

NotOffered == [given |-> FALSE, items |-> <<>>]

\* self.model.generate_content(prompt, ..., tools=gt); gt is NotOffered when
\* the call passes no tools
ProviderCall(prompt, gt) ==
    [op |-> "generate_content", prompt |-> prompt, tools |-> gt, name |-> "", kwargs |-> NoKwargs]

\* tool_manager.execute_tool(name, **kwargs)
ToolCall(name, kwargs) ==
    [op |-> "execute_tool", prompt |-> <<>>, tools |-> NotOffered, name |-> name, kwargs |-> kwargs]

----------------------------------------------------------------------------
(* Two concurrent requests on one AIGenerator *)

RequestIds == {1, 2}

TEMPERATURE == 0

MAX_OUTPUT_TOKENS == 800

\* self.generation_config and self.safety_settings as __init__ leaves them
GeneratorAttributes ==
    [generation_config |-> [temperature |-> TEMPERATURE,
                            max_output_tokens |-> MAX_OUTPUT_TOKENS],
     safety_settings |-> [c \in {"HARM_CATEGORY_HARASSMENT", "HARM_CATEGORY_HATE_SPEECH",
                                 "HARM_CATEGORY_SEXUALLY_EXPLICIT",
                                 "HARM_CATEGORY_DANGEROUS_CONTENT"} |-> "BLOCK_ONLY_HIGH"]]

\* faulty variant: a call leaves a changed temperature on the generator
GeneratorAfterCallWarmer(g) == [g EXCEPT !.generation_config.temperature = 1]

\* the generator's attributes after a generate_content call: no statement of
\* generate_response or of the handler assigns to self
GeneratorAfterCall(g) == g

\* the arguments of the two requests: different queries, one with a history
ThreadQuery(t) == IF t = 1 THEN <<"What is MCP?">> ELSE <<"List the lessons">>

ThreadHistory(t) == IF t = 1 THEN NoHistory ELSE [given |-> TRUE, value |-> <<"User: hi">>]

ThreadTools == [given |-> TRUE, items |-> <<SearchTool>>]

\* the locals of one generate_response call and of its handler
NewThread(t) ==
    [pc |-> "BUILDING_PROMPT", query |-> ThreadQuery(t),
     conversation_history |-> ThreadHistory(t),
     full_prompt |-> <<>>, gemini_tools |-> [given |-> FALSE, items |-> <<>>],
     first_response |-> NoneResponse, function_call |-> NoFunctionCall,
     tool_result |-> <<>>, follow_up_prompt |-> <<>>, second_response |-> NoneResponse,
     result |-> <<>>, return_site |-> "none", exception |-> NoException,
     configs |-> <<>>]

\* what generate_content returns to the concurrent requests: a text, a
\* function call, or no candidates and a readable response.text
ThreadResponses ==
    { [is_none |-> FALSE, candidates_is_none |-> FALSE,
       candidates |-> << [finish_reason |-> FINISH_STOP, has_content |-> TRUE,
                          parts |-> << TextPart(<<"A">>) >>] >>,
       text |-> [has |-> FALSE, raises |-> FALSE, value |-> <<>>]],
      [is_none |-> FALSE, candidates_is_none |-> FALSE,
       candidates |-> << [finish_reason |-> FINISH_STOP, has_content |-> TRUE,
                          parts |-> << FunctionCallPart(
                                         FunctionCall("search_course_content", NoArgs)) >>] >>,
       text |-> [has |-> FALSE, raises |-> FALSE, value |-> <<>>]],
      [is_none |-> FALSE, candidates_is_none |-> FALSE, candidates |-> <<>>,
       text |-> [has |-> TRUE, raises |-> FALSE, value |-> <<"Q">>]] }

\* what a collaborator raises under the concurrent requests
ThreadExceptions == { [type |-> "Exception", msg |-> <<"disk full">>, str_raises |-> FALSE] }

\* no concurrent requests are running
ConcurrentIdle ==
    /\ generator = GeneratorAttributes
    /\ threads = <<>>

----------------------------------------------------------------------------
(* query_documents: the POST /api/query handler of the test app *)

\* request.session_id: None, "" or an id
NoSessionId == [given |-> FALSE, value |-> <<>>]

SessionIds ==
    { NoSessionId, [given |-> TRUE, value |-> <<>>],
      [given |-> TRUE, value |-> <<"test_session_id">>],
      [given |-> TRUE, value |-> <<"session_7">>] }

ApiQueries == { <<>>, <<"test query">>, <<"What is machine learning?">> }

\* the QueryRequest objects the handler is called with
Requests == [query : ApiQueries, session_id : SessionIds]

NoRequest == [query |-> <<>>, session_id |-> NoSessionId]

\* what session_manager.create_session returns
CreatedSessionIds == { <<"test_session_id">>, <<"session_1">> }

\* what mock_rag_system.query returns: (answer, sources)
RagAnswers ==
    { [answer |-> <<"Test answer">>, sources |-> <<"Test source 1", "Test source 2">>],
      [answer |-> <<>>, sources |-> <<>>] }

\* what create_session and query may raise: the class and the constructor arguments
EndpointExceptions ==
    { [type |-> "Exception", args |-> <<"Database connection error">>],
      [type |-> "Exception", args |-> <<"Session error">>],
      [type |-> "Exception", args |-> <<>>],
      [type |-> "KeyError", args |-> <<"answer">>] }

NoEndpointException == [type |-> "none", args |-> <<>>]

\* str(e): the single argument, quoted by KeyError; empty without arguments
StrException(e) ==
    IF Len(e.args) = 0 THEN <<>>
    ELSE IF e.type = "KeyError" THEN <<"'", e.args[1], "'">>
    ELSE <<e.args[1]>>

\* one call recorded by mock_rag_system
MockCall(op, q, sid, e) == [op |-> op, query |-> q, session_id |-> sid, raised |-> e]

\* QueryResponse(answer=..., sources=..., session_id=...), sent with status 200
QueryResponse(answer, sources, sid) ==
    [status_code |-> 200, answer |-> answer, sources |-> sources, session_id |-> sid,
     detail |-> <<>>]

\* HTTPException(status_code=..., detail=...)
HTTPException(status_code, detail) ==
    [status_code |-> status_code, answer |-> <<>>, sources |-> <<>>, session_id |-> <<>>,
     detail |-> detail]

\* nothing returned or raised yet
NoHttpResponse == [status_code |-> 0, answer |-> <<>>, sources |-> <<>>, session_id |-> <<>>,
                   detail |-> <<>>]

\* faulty variant: a session is created for every request
NeedsSessionAlways(sid) == TRUE

\* `if not session_id:`
NeedsSession(sid) == ~(sid.given /\ Truthy(sid.value))

\* faulty variant: the detail is a fixed text
QueryExceptGeneric(e) == HTTPException(500, <<"Internal Server Error">>)

\* `except Exception as e: raise HTTPException(status_code=500, detail=str(e))`
QueryExcept(e) == HTTPException(500, StrException(e))

\* query_documents is not running
EndpointIdle ==
    /\ endpoint_pc = "IDLE"
    /\ request = NoRequest
    /\ session_id = NoSessionId
    /\ mock_calls = <<>>
    /\ http_response = NoHttpResponse

\* generate_response is not running: mock_rag_system stands in for it
GeneratorIdle ==
    /\ pc = "NOT_CALLED"
    /\ query = <<>>
    /\ conversation_history = NoHistory
    /\ tools = NoTools
    /\ tool_manager = FALSE
    /\ full_prompt = <<>>
    /\ gemini_tools = NotOffered
    /\ response = NoneResponse
    /\ first_finish = 0
    /\ function_call = NoFunctionCall
    /\ function_args = NoKwargs
    /\ tool_result = <<>>
    /\ follow_up_prompt = <<>>
    /\ result = <<>>
    /\ return_site = "none"
    /\ exception = NoException
    /\ calls = <<>>

\* a validated QueryRequest reaches query_documents
QueryInit ==
    /\ GeneratorIdle
    /\ endpoint_pc = "RECEIVED"
    /\ request \in Requests
    /\ session_id = NoSessionId
    /\ mock_calls = <<>>
    /\ http_response = NoHttpResponse
    /\ ConcurrentIdle

\* `session_id = request.session_id` and the test `if not session_id`
ReadSessionId ==
    /\ endpoint_pc = "RECEIVED"
    /\ session_id' = request.session_id
    /\ endpoint_pc' = IF NeedsSession(request.session_id)
                      THEN "AWAITING_SESSION" ELSE "AWAITING_RAG"
    /\ UNCHANGED <<request, mock_calls, http_response>>
    /\ UNCHANGED generator_vars
    /\ UNCHANGED concurrent_vars

\* session_manager.create_session() returns
CreateSessionReturns ==
    /\ endpoint_pc = "AWAITING_SESSION"
    /\ \E sid \in CreatedSessionIds :
        /\ mock_calls' = Append(mock_calls,
                                MockCall("create_session", <<>>, sid, NoEndpointException))
        /\ session_id' = [given |-> TRUE, value |-> sid]
    /\ endpoint_pc' = "AWAITING_RAG"
    /\ UNCHANGED <<request, http_response>>
    /\ UNCHANGED generator_vars
    /\ UNCHANGED concurrent_vars

\* session_manager.create_session() raises
CreateSessionRaises ==
    /\ endpoint_pc = "AWAITING_SESSION"
    /\ \E e \in EndpointExceptions :
        /\ mock_calls' = Append(mock_calls, MockCall("create_session", <<>>, <<>>, e))
        /\ http_response' = QueryExcept(e)
    /\ endpoint_pc' = "RESPONDED"
    /\ UNCHANGED <<request, session_id>>
    /\ UNCHANGED generator_vars
    /\ UNCHANGED concurrent_vars

\* mock_rag_system.query(request.query, session_id) returns
RagQueryReturns ==
    /\ endpoint_pc = "AWAITING_RAG"
    /\ \E a \in RagAnswers :
        /\ mock_calls' = Append(mock_calls,
                                MockCall("query", request.query, session_id.value,
                                         NoEndpointException))
        /\ http_response' = QueryResponse(a.answer, a.sources, session_id.value)
    /\ endpoint_pc' = "RESPONDED"
    /\ UNCHANGED <<request, session_id>>
    /\ UNCHANGED generator_vars
    /\ UNCHANGED concurrent_vars

\* mock_rag_system.query(request.query, session_id) raises
RagQueryRaises ==
    /\ endpoint_pc = "AWAITING_RAG"
    /\ \E e \in EndpointExceptions :
        /\ mock_calls' = Append(mock_calls,
                                MockCall("query", request.query, session_id.value, e))
        /\ http_response' = QueryExcept(e)
    /\ endpoint_pc' = "RESPONDED"
    /\ UNCHANGED <<request, session_id>>
    /\ UNCHANGED generator_vars
    /\ UNCHANGED concurrent_vars

QueryNext ==
    \/ ReadSessionId
    \/ CreateSessionReturns
    \/ CreateSessionRaises
    \/ RagQueryReturns
    \/ RagQueryRaises

\* one POST /api/query request, from the validated body to the response
QuerySpec == QueryInit /\ [][QueryNext]_vars

----------------------------------------------------------------------------
(* generate_response: one request *)

Init ==
    /\ pc = "BUILDING_PROMPT"
    /\ query \in Queries
    /\ conversation_history \in Histories
    /\ tools \in ToolLists
    /\ tool_manager \in BOOLEAN
    /\ full_prompt = <<>>
    /\ gemini_tools = NotOffered
    /\ response = NoneResponse
    /\ first_finish = 0
    /\ function_call = NoFunctionCall
    /\ function_args = NoKwargs
    /\ tool_result = <<>>
    /\ follow_up_prompt = <<>>
    /\ result = <<>>
    /\ return_site = "none"
    /\ exception = NoException
    /\ calls = <<>>
    /\ EndpointIdle
    /\ ConcurrentIdle

\* generate_response up to the first generate_content call
AssemblePrompt ==
    /\ pc = "BUILDING_PROMPT"
    /\ UNCHANGED endpoint_vars
    /\ UNCHANGED concurrent_vars
    /\ full_prompt' = BuildPrompt(query, conversation_history)
    /\ gemini_tools' = GeminiTools(tools)
    /\ pc' = "AWAITING_FIRST_RESPONSE"
    /\ UNCHANGED <<conversation_history, tools, tool_manager, query, response,
                   first_finish, function_call, function_args, tool_result,
                   follow_up_prompt, result, return_site, exception, calls>>

\* an exception reaches the except clauses of generate_response
GenerateRaise(e) ==
    /\ exception' = e
    /\ IF GenerateCatches(e)
       THEN pc' = "DONE" /\ result' = GenerateExcept(e) /\ return_site' = "generate_except"
       ELSE pc' = "RAISED" /\ UNCHANGED <<result, return_site>>

\* an exception reaches the except clauses of _handle_gemini_function_call
HandlerRaise(e) ==
    /\ exception' = e
    /\ IF HandlerCatches(e)
       THEN pc' = "DONE" /\ result' = HandlerExcept(e) /\ return_site' = "handler_except"
       ELSE pc' = "RAISED" /\ UNCHANGED <<result, return_site>>

\* the first generate_content call returns some r of rs: function calling, or
\* text extraction, or (r is None and tools were passed) an AttributeError
FirstCallReturnsOneOf(rs) ==
    /\ pc = "AWAITING_FIRST_RESPONSE"
    /\ UNCHANGED endpoint_vars
    /\ UNCHANGED concurrent_vars
    /\ \E r \in rs :
        /\ calls' = Append(calls, ProviderCall(full_prompt, gemini_tools))
        /\ response' = r
        /\ first_finish' = IF HasCandidates(r) THEN r.candidates[1].finish_reason ELSE 0
        /\ IF WithTools(gemini_tools) /\ r.is_none
           THEN /\ GenerateRaise(NoneAttributeError)
                /\ UNCHANGED <<function_call, function_args>>
           ELSE IF WithTools(gemini_tools) /\ RequestedCall(r, tool_manager).present
           THEN /\ function_call' = RequestedCall(r, tool_manager)
                /\ function_args' = MarshalArgs(RequestedCall(r, tool_manager).args)
                /\ pc' = "AWAITING_TOOL_RESULT"
                /\ UNCHANGED <<result, return_site, exception>>
           ELSE /\ pc' = "DONE"
                /\ result' = ExtractFirst(r)
                /\ return_site' = "generate_extract"
                /\ UNCHANGED <<function_call, function_args, exception>>
    /\ UNCHANGED <<conversation_history, tools, tool_manager, query, full_prompt,
                   gemini_tools, tool_result, follow_up_prompt>>

FirstCallReturns == FirstCallReturnsOneOf(Responses)

\* the first generate_content call raises
FirstCallRaises ==
    /\ pc = "AWAITING_FIRST_RESPONSE"
    /\ UNCHANGED endpoint_vars
    /\ UNCHANGED concurrent_vars
    /\ \E e \in Exceptions :
        /\ calls' = Append(calls, ProviderCall(full_prompt, gemini_tools))
        /\ GenerateRaise(e)
    /\ UNCHANGED <<conversation_history, tools, tool_manager, query, full_prompt,
                   gemini_tools, response, first_finish, function_call, function_args,
                   tool_result, follow_up_prompt>>

\* execute_tool returns: the follow-up prompt is built.  From here on the
\* handler's own `response` is the one that is read; the caller's is dead
\* (generate_response returns the handler's value as it is).
ToolReturns ==
    /\ pc = "AWAITING_TOOL_RESULT"
    /\ UNCHANGED endpoint_vars
    /\ UNCHANGED concurrent_vars
    /\ \E tr \in ToolResults :
        /\ calls' = Append(calls, ToolCall(function_call.name, function_args))
        /\ tool_result' = tr
        /\ follow_up_prompt' = FollowUpPrompt(full_prompt, tr)
    /\ response' = NoneResponse
    /\ pc' = "AWAITING_SECOND_RESPONSE"
    /\ UNCHANGED <<conversation_history, tools, tool_manager, query, full_prompt,
                   gemini_tools, first_finish, function_call, function_args,
                   result, return_site, exception>>

\* execute_tool raises
ToolRaises ==
    /\ pc = "AWAITING_TOOL_RESULT"
    /\ UNCHANGED endpoint_vars
    /\ UNCHANGED concurrent_vars
    /\ \E e \in Exceptions :
        /\ calls' = Append(calls, ToolCall(function_call.name, function_args))
        /\ HandlerRaise(e)
    /\ response' = NoneResponse
    /\ UNCHANGED <<conversation_history, tools, tool_manager, query, full_prompt,
                   gemini_tools, first_finish, function_call, function_args,
                   tool_result, follow_up_prompt>>

\* the second generate_content call returns some r of rs
SecondCallReturnsOneOf(rs) ==
    /\ pc = "AWAITING_SECOND_RESPONSE"
    /\ UNCHANGED endpoint_vars
    /\ UNCHANGED concurrent_vars
    /\ \E r \in rs :
        /\ calls' = Append(calls, ProviderCall(follow_up_prompt, NotOffered))
        /\ response' = r
        /\ IF FollowUpCall(r).present
           THEN /\ function_call' = FollowUpCall(r)
                /\ function_args' = MarshalArgs(FollowUpCall(r).args)
                /\ pc' = "AWAITING_TOOL_RESULT"
                /\ UNCHANGED <<result, return_site>>
           ELSE /\ result' = ExtractSecond(r, tool_result)
                /\ return_site' = "handler_extract"
                /\ pc' = "DONE"
                /\ UNCHANGED <<function_call, function_args>>
    /\ UNCHANGED <<conversation_history, tools, tool_manager, query, full_prompt,
                   gemini_tools, first_finish, tool_result, follow_up_prompt, exception>>

SecondCallReturns == SecondCallReturnsOneOf(Responses)

\* the second generate_content call raises
SecondCallRaises ==
    /\ pc = "AWAITING_SECOND_RESPONSE"
    /\ UNCHANGED endpoint_vars
    /\ UNCHANGED concurrent_vars
    /\ \E e \in Exceptions :
        /\ calls' = Append(calls, ProviderCall(follow_up_prompt, NotOffered))
        /\ HandlerRaise(e)
    /\ UNCHANGED <<conversation_history, tools, tool_manager, query, full_prompt,
                   gemini_tools, response, first_finish, function_call, function_args,
                   tool_result, follow_up_prompt>>

Next ==
    \/ AssemblePrompt
    \/ FirstCallReturns
    \/ FirstCallRaises
    \/ ToolReturns
    \/ ToolRaises
    \/ SecondCallReturns
    \/ SecondCallRaises

Spec == Init /\ [][Next]_vars

\* first responses whose only part is a function call with any arguments
MarshalResponses ==
    { [is_none |-> FALSE, candidates_is_none |-> FALSE,
       candidates |-> << [finish_reason |-> FINISH_STOP, has_content |-> TRUE,
                          parts |-> << FunctionCallPart(
                                         FunctionCall("search_course_content", a)) >>] >>,
       text |-> [has |-> FALSE, raises |-> FALSE, value |-> <<>>]] :
        a \in ArgsUpTo(MaxFields) }

\* generate_response called with the search tool and a tool_manager
MarshalInit ==
    /\ pc = "BUILDING_PROMPT"
    /\ query \in Queries
    /\ conversation_history = NoHistory
    /\ tools = [given |-> TRUE, items |-> <<SearchTool>>]
    /\ tool_manager = TRUE
    /\ full_prompt = <<>>
    /\ gemini_tools = NotOffered
    /\ response = NoneResponse
    /\ first_finish = 0
    /\ function_call = NoFunctionCall
    /\ function_args = NoKwargs
    /\ tool_result = <<>>
    /\ follow_up_prompt = <<>>
    /\ result = <<>>
    /\ return_site = "none"
    /\ exception = NoException
    /\ calls = <<>>
    /\ EndpointIdle
    /\ ConcurrentIdle

MarshalFirstCallReturns == FirstCallReturnsOneOf(MarshalResponses)

MarshalNext ==
    \/ AssemblePrompt
    \/ MarshalFirstCallReturns
    \/ ToolReturns
    \/ ToolRaises

\* the request up to the tool execution, over every args object
MarshalSpec == MarshalInit /\ [][MarshalNext]_vars

\* generate_response called with any query and conversation history
PromptInit ==
    /\ pc = "BUILDING_PROMPT"
    /\ query \in QueriesUpTo(MaxQueryLen)
    /\ conversation_history \in PromptHistories
    /\ tools = NoTools
    /\ tool_manager = FALSE
    /\ full_prompt = <<>>
    /\ gemini_tools = NotOffered
    /\ response = NoneResponse
    /\ first_finish = 0
    /\ function_call = NoFunctionCall
    /\ function_args = NoKwargs
    /\ tool_result = <<>>
    /\ follow_up_prompt = <<>>
    /\ result = <<>>
    /\ return_site = "none"
    /\ exception = NoException
    /\ calls = <<>>
    /\ EndpointIdle
    /\ ConcurrentIdle

PromptNext == AssemblePrompt

\* the prompt assembly on every query and conversation history
PromptSpec == PromptInit /\ [][PromptNext]_vars

\* generate_response called with a list of descriptors
ConvertInit ==
    /\ pc = "BUILDING_PROMPT"
    /\ query \in Queries
    /\ conversation_history = NoHistory
    /\ tools \in DescriptorLists
    /\ tool_manager = TRUE
    /\ full_prompt = <<>>
    /\ gemini_tools = NotOffered
    /\ response = NoneResponse
    /\ first_finish = 0
    /\ function_call = NoFunctionCall
    /\ function_args = NoKwargs
    /\ tool_result = <<>>
    /\ follow_up_prompt = <<>>
    /\ result = <<>>
    /\ return_site = "none"
    /\ exception = NoException
    /\ calls = <<>>
    /\ EndpointIdle
    /\ ConcurrentIdle

ConvertNext == AssemblePrompt

\* the tool schema conversion on every list of descriptors
ConvertSpec == ConvertInit /\ [][ConvertNext]_vars

LiveFirstCallReturns == FirstCallReturnsOneOf(LiveResponses)

LiveSecondCallReturns == SecondCallReturnsOneOf(LiveResponses)

\* Next with the provider's responses drawn from LiveResponses
LiveNext ==
    \/ AssemblePrompt
    \/ LiveFirstCallReturns
    \/ FirstCallRaises
    \/ ToolReturns
    \/ ToolRaises
    \/ LiveSecondCallReturns
    \/ SecondCallRaises

\* every collaborator call returns or raises, and the request then goes on:
\* the calls are synchronous, control comes back to the one thread of the
\* request
LiveSpec == Init /\ [][LiveNext]_vars /\ WF_vars(LiveNext)

----------------------------------------------------------------------------
(* Two concurrent requests: the steps of request t *)

\* two generate_response calls have started on the one generator
ConcurrentInit ==
    /\ GeneratorIdle
    /\ EndpointIdle
    /\ generator = GeneratorAttributes
    /\ threads = [t \in RequestIds |-> NewThread(t)]

\* generate_response up to the first generate_content call
ThreadAssemblePrompt(t) ==
    /\ threads[t].pc = "BUILDING_PROMPT"
    /\ threads' = [threads EXCEPT
          ![t].full_prompt = BuildPrompt(threads[t].query, threads[t].conversation_history),
          ![t].gemini_tools = GeminiTools(ThreadTools),
          ![t].pc = "AWAITING_FIRST_RESPONSE"]
    /\ UNCHANGED generator
    /\ UNCHANGED <<generator_vars, endpoint_vars>>

\* the first generate_content call returns
ThreadFirstCallReturns(t) ==
    /\ threads[t].pc = "AWAITING_FIRST_RESPONSE"
    /\ \E r \in ThreadResponses :
        threads' = [threads EXCEPT
          ![t].configs = Append(@, generator.generation_config),
          ![t].first_response = r,
          ![t].function_call = RequestedCall(r, TRUE),
          ![t].pc = IF RequestedCall(r, TRUE).present
                    THEN "AWAITING_TOOL_RESULT" ELSE "DONE",
          ![t].result = IF RequestedCall(r, TRUE).present THEN <<>> ELSE ExtractFirst(r),
          ![t].return_site = IF RequestedCall(r, TRUE).present
                             THEN "none" ELSE "generate_extract"]
    /\ generator' = GeneratorAfterCall(generator)
    /\ UNCHANGED <<generator_vars, endpoint_vars>>

\* the first generate_content call raises
ThreadFirstCallRaises(t) ==
    /\ threads[t].pc = "AWAITING_FIRST_RESPONSE"
    /\ \E e \in ThreadExceptions :
        threads' = [threads EXCEPT
          ![t].configs = Append(@, generator.generation_config),
          ![t].exception = e,
          ![t].result = GenerateExcept(e),
          ![t].return_site = "generate_except",
          ![t].pc = "DONE"]
    /\ generator' = GeneratorAfterCall(generator)
    /\ UNCHANGED <<generator_vars, endpoint_vars>>

\* execute_tool returns
ThreadToolReturns(t) ==
    /\ threads[t].pc = "AWAITING_TOOL_RESULT"
    /\ \E tr \in ToolResults :
        threads' = [threads EXCEPT
          ![t].tool_result = tr,
          ![t].follow_up_prompt = FollowUpPrompt(threads[t].full_prompt, tr),
          ![t].pc = "AWAITING_SECOND_RESPONSE"]
    /\ UNCHANGED generator
    /\ UNCHANGED <<generator_vars, endpoint_vars>>

\* execute_tool raises
ThreadToolRaises(t) ==
    /\ threads[t].pc = "AWAITING_TOOL_RESULT"
    /\ \E e \in ThreadExceptions :
        threads' = [threads EXCEPT
          ![t].exception = e,
          ![t].result = HandlerExcept(e),
          ![t].return_site = "handler_except",
          ![t].pc = "DONE"]
    /\ UNCHANGED generator
    /\ UNCHANGED <<generator_vars, endpoint_vars>>

\* the second generate_content call returns
ThreadSecondCallReturns(t) ==
    /\ threads[t].pc = "AWAITING_SECOND_RESPONSE"
    /\ \E r \in ThreadResponses :
        threads' = [threads EXCEPT
          ![t].configs = Append(@, generator.generation_config),
          ![t].second_response = r,
          ![t].result = ExtractSecond(r, threads[t].tool_result),
          ![t].return_site = "handler_extract",
          ![t].pc = "DONE"]
    /\ generator' = GeneratorAfterCall(generator)
    /\ UNCHANGED <<generator_vars, endpoint_vars>>

\* the second generate_content call raises
ThreadSecondCallRaises(t) ==
    /\ threads[t].pc = "AWAITING_SECOND_RESPONSE"
    /\ \E e \in ThreadExceptions :
        threads' = [threads EXCEPT
          ![t].configs = Append(@, generator.generation_config),
          ![t].exception = e,
          ![t].result = HandlerExcept(e),
          ![t].return_site = "handler_except",
          ![t].pc = "DONE"]
    /\ generator' = GeneratorAfterCall(generator)
    /\ UNCHANGED <<generator_vars, endpoint_vars>>

ConcurrentNext ==
    \E t \in RequestIds :
        \/ ThreadAssemblePrompt(t)
        \/ ThreadFirstCallReturns(t)
        \/ ThreadFirstCallRaises(t)
        \/ ThreadToolReturns(t)
        \/ ThreadToolRaises(t)
        \/ ThreadSecondCallReturns(t)
        \/ ThreadSecondCallRaises(t)

\* two requests on one generator, their steps interleaved in every order
ConcurrentSpec == ConcurrentInit /\ [][ConcurrentNext]_vars

----------------------------------------------------------------------------
(* Properties *)

\* number of calls of one collaborator operation issued so far
CountOp(op) == Cardinality({i \in 1..Len(calls) : calls[i].op = op})

\* some part of candidates[0] of r carries a function call
HasFunctionCallPart(r) ==
    /\ HasCandidates(r)
    /\ \E i \in 1..Len(r.candidates[1].parts) : r.candidates[1].parts[i].function_call.present

(* C1: whatever the first and second responses look like, whichever        *)
(* provider call or tool execution raises, no exception escapes            *)
(* generate_response and the value it returns is a non-empty string.       *)
C1_NeverRaisesNonEmpty ==
    /\ pc # "RAISED"
    /\ pc = "DONE" => /\ Len(result) > 0
                      /\ return_site \in {"generate_extract", "generate_except",
                                          "handler_extract", "handler_except"}

\* the second provider call raised an exception whose str() raises too
C1_Witness ==
    /\ pc = "DONE"
    /\ CountOp("generate_content") = 2
    /\ exception.str_raises
    /\ result = MsgErrorExecuting

(* C2: every request that starts in BUILDING_PROMPT reaches DONE with a    *)
(* result, and none stays in one of the three waiting states, given that   *)
(* every collaborator call returns or raises.                              *)
C2_ReachesDone ==
    (pc \in {"BUILDING_PROMPT", "AWAITING_FIRST_RESPONSE", "AWAITING_TOOL_RESULT",
             "AWAITING_SECOND_RESPONSE"})
        ~> (pc = "DONE" /\ Len(result) > 0)

\* a request ended by an exception of the tool executor
C2_Witness ==
    /\ pc = "DONE"
    /\ Len(calls) = 2
    /\ calls[2].op = "execute_tool"
    /\ return_site = "handler_except"

(* C3: one request calls generate_content at most twice and execute_tool   *)
(* at most once, also when the second response carries a function call.    *)
C3_CallBounds ==
    /\ CountOp("generate_content") <= 2
    /\ CountOp("execute_tool") <= 1

\* the second response carries a function call and the request is over
C3_Witness ==
    /\ pc = "DONE"
    /\ return_site = "handler_extract"
    /\ HasFunctionCallPart(response)
    /\ CountOp("generate_content") = 2
    /\ CountOp("execute_tool") = 1

(* C4: the tool executor is invoked only if a non-empty tool list was      *)
(* supplied, candidates[0] of the first response has a part with a         *)
(* function call, and a tool_manager was supplied.                         *)
C4_ToolOnlyIf ==
    /\ (pc = "AWAITING_TOOL_RESULT" \/ CountOp("execute_tool") > 0)
          => /\ tools.given /\ Len(tools.items) > 0
             /\ tool_manager
             /\ function_call.present
    /\ pc = "AWAITING_TOOL_RESULT"
          => /\ HasFunctionCallPart(response)
             /\ \E i \in 1..Len(response.candidates[1].parts) :
                   response.candidates[1].parts[i].function_call = function_call

\* the executor is about to be invoked
C4_Witness ==
    /\ pc = "AWAITING_TOOL_RESULT"
    /\ tool_manager
    /\ HasFunctionCallPart(response)

\* candidates[0] of r has a part with non-empty text
HasTextPart(r) ==
    /\ HasCandidates(r)
    /\ \E i \in 1..Len(r.candidates[1].parts) : Len(r.candidates[1].parts[i].text) > 0

\* candidates[0] of r has one of the three blocked statuses
BlockedResponse(r) ==
    HasCandidates(r) /\ r.candidates[1].finish_reason \in {2, 3, 4}

\* reading r.text gives a non-empty string
QuickTextUsable(r) ==
    ~r.is_none /\ r.text.has /\ ~r.text.raises /\ Len(r.text.value) > 0

\* the tool returned and the second generate_content call returned `response`
SecondResponseRead == pc = "DONE" /\ return_site = "handler_extract"

(* C5 as claimed: the tool returned R and the second response is Empty,    *)
(* that is, it has no candidates, or its candidate is not blocked, has no  *)
(* text-bearing part and response.text is not usable; then the answer      *)
(* contains str(R).                                                        *)
C5_Original ==
    (/\ SecondResponseRead
     /\ \/ ~HasCandidates(response)
        \/ ~BlockedResponse(response) /\ ~HasTextPart(response) /\ ~QuickTextUsable(response))
        => Contains(result, tool_result)

(* C5 amended: the tool returned R and the second response gives no text   *)
(* at all: no candidates, or a candidate that is not blocked and has no    *)
(* text-bearing part, and in both cases response.text is not usable; then  *)
(* the answer is "Based on the search results: " followed by str(R).       *)
C5_NoTextEmbedsToolResult ==
    (/\ SecondResponseRead
     /\ ~HasCandidates(response) \/ (~BlockedResponse(response) /\ ~HasTextPart(response))
     /\ ~QuickTextUsable(response))
        => /\ result = SearchResultsPrefix \o tool_result
           /\ Contains(result, tool_result)

\* an object without candidates and without usable text after a tool result
C5_Witness ==
    /\ SecondResponseRead
    /\ ~response.is_none
    /\ ~HasCandidates(response)
    /\ ~QuickTextUsable(response)
    /\ tool_result = <<"found content Y">>

(* C6 as claimed: the tool returned R and candidates[0] of the second      *)
(* response is blocked; then the answer embeds str(R).                     *)
C6_Original ==
    (SecondResponseRead /\ BlockedResponse(response)) => Contains(result, tool_result)

(* C6 amended: the tool returned R and candidates[0] of the second         *)
(* response is blocked; then the answer is the fixed message of that       *)
(* status, the same one a blocked first response gives.                    *)
C6_BlockedSecondGivesBlockedMessage ==
    (SecondResponseRead /\ BlockedResponse(response))
        => LET fr == response.candidates[1].finish_reason
           IN  /\ fr = 2 => result = MsgSafety
               /\ fr = 3 => result = MsgRecitation
               /\ fr = 4 => result = MsgOther

\* a recitation block after the tool found content
C6_Witness ==
    /\ SecondResponseRead
    /\ BlockedResponse(response)
    /\ response.candidates[1].finish_reason = 3
    /\ tool_result = <<"found content Y">>

\* execute_tool was the last call and it raised
ToolRaised ==
    /\ pc \in {"DONE", "RAISED"}
    /\ Len(calls) > 0
    /\ calls[Len(calls)].op = "execute_tool"

(* C7 as claimed: the tool executor raised an exception with message M;    *)
(* then the answer is "Error executing function: M", no second provider    *)
(* call was issued and nothing escaped.                                    *)
C7_Original ==
    (ToolRaised /\ ~exception.str_raises)
        => /\ pc = "DONE"
           /\ result = ErrorExecutingPrefix \o exception.msg
           /\ CountOp("generate_content") = 1

(* C7 amended: the tool executor raised; then no second provider call is   *)
(* issued, nothing escapes, and the answer is: for a UnicodeEncodeError    *)
(* the fixed encoding-issue message of the handler; for an exception whose *)
(* str() raises, "Error executing function. Please try again."; otherwise  *)
(* "Error executing function: " followed by the message M with every       *)
(* character UTF-8 cannot encode replaced by "?", which is M itself when M *)
(* is well-formed.                                                         *)
C7_ToolErrorReported ==
    ToolRaised
        => /\ pc = "DONE"
           /\ CountOp("generate_content") = 1
           /\ exception.type = "UnicodeEncodeError" => result = MsgFunctionEncodingIssue
           /\ (exception.type # "UnicodeEncodeError" /\ exception.str_raises)
                 => result = MsgErrorExecuting
           /\ (exception.type # "UnicodeEncodeError" /\ ~exception.str_raises)
                 => /\ Len(result) = 1 + Len(exception.msg)
                    /\ SubSeq(result, 1, 1) = ErrorExecutingPrefix
                    /\ \A i \in 1..Len(exception.msg) :
                          result[i + 1] = IF exception.msg[i] = Surrogate
                                          THEN "?" ELSE exception.msg[i]
                    /\ (\A i \in 1..Len(exception.msg) : exception.msg[i] # Surrogate)
                          => result = ErrorExecutingPrefix \o exception.msg

\* the executor raised RuntimeError("disk full")
C7_Witness ==
    /\ ToolRaised
    /\ exception.msg = <<"disk full">>
    /\ Contains(result, <<"disk full">>)

(* C8: whenever candidates[0] of a response, the first or the second, has  *)
(* finish_reason 2, the answer is the safety message, whatever the parts   *)
(* hold.                                                                   *)
C8_SafetyBlockAlwaysWins ==
    /\ (pc = "DONE" /\ first_finish = 2) => result = MsgSafety
    /\ (SecondResponseRead /\ HasCandidates(response)
          /\ response.candidates[1].finish_reason = 2) => result = MsgSafety

\* generate_response read the first response, an object, for text
FirstResponseRead ==
    /\ pc = "DONE"
    /\ Len(calls) = 1
    /\ return_site = "generate_extract"

(* C9 as claimed: the first response has no candidates; then the answer is *)
(* the apology message and no tool is executed.                            *)
C9_Original ==
    (FirstResponseRead /\ ~response.is_none /\ ~HasCandidates(response))
        => /\ result = MsgApology
           /\ CountOp("execute_tool") = 0

(* C9 amended: the first response is an object without candidates; then no *)
(* tool is executed, and the answer is the re-encoded response.text when   *)
(* reading it gives a non-empty string, else the apology message.          *)
C9_NoCandidatesFallsBack ==
    /\ (FirstResponseRead /\ ~response.is_none /\ ~HasCandidates(response))
          => /\ CountOp("execute_tool") = 0
             /\ QuickTextUsable(response) => result = Reencode(response.text.value)
             /\ ~QuickTextUsable(response) => result = MsgApology
    /\ (pc \in {"AWAITING_TOOL_RESULT", "AWAITING_SECOND_RESPONSE"} \/ CountOp("execute_tool") > 0)
          => first_finish # 0

\* an empty candidate list beside a readable response.text
C9_Witness ==
    /\ FirstResponseRead
    /\ ~response.is_none
    /\ ~response.candidates_is_none
    /\ ~HasCandidates(response)
    /\ QuickTextUsable(response)
    /\ tools.given /\ Len(tools.items) > 0 /\ tool_manager

\* text extraction ran on `response`: the second response, or a first
\* response that was not handed to the function-call handler
ExtractionRan == pc = "DONE" /\ return_site \in {"generate_extract", "handler_extract"}

\* the text of the first part of candidates[0] of r whose text is non-empty
FirstNonEmptyText(r) ==
    LET ps == r.candidates[1].parts
        i  == CHOOSE k \in 1..Len(ps) :
                 Len(ps[k].text) > 0 /\ \A j \in 1..(k - 1) : Len(ps[j].text) = 0
    IN  ps[i].text

(* C10 as claimed: candidates[0] is not blocked and has text-bearing       *)
(* parts; then the answer is exactly the text of the first part whose text *)
(* is non-empty, so such a response is never handed to the tool executor.  *)
C10_Original ==
    /\ (ExtractionRan /\ ~BlockedResponse(response) /\ HasTextPart(response))
          => result = FirstNonEmptyText(response)
    /\ pc = "AWAITING_TOOL_RESULT" => ~(~BlockedResponse(response) /\ HasTextPart(response))

(* C10 amended: text extraction runs on a response (the second one, or a   *)
(* first one not handed to the function-call handler) whose candidates[0]  *)
(* is not blocked and has text-bearing parts; then the answer is the text  *)
(* of the first part whose text is non-empty, with every character UTF-8   *)
(* cannot encode replaced by "?": that text itself when it is well-formed. *)
(* No other part contributes.                                              *)
C10_FirstTextPartReencoded ==
    (ExtractionRan /\ ~BlockedResponse(response) /\ HasTextPart(response))
        => LET t == FirstNonEmptyText(response)
           IN  /\ Len(result) = Len(t)
               /\ \A i \in 1..Len(t) : result[i] = IF t[i] = Surrogate THEN "?" ELSE t[i]
               /\ (\A i \in 1..Len(t) : t[i] # Surrogate) => result = t

\* an empty text, then two different text-bearing parts: the answer is the
\* second part alone
C10_Witness ==
    /\ ExtractionRan
    /\ ~BlockedResponse(response)
    /\ Len(response.candidates) > 0
    /\ Len(response.candidates[1].parts) = 3
    /\ ~response.candidates[1].parts[1].function_call.present
    /\ Len(response.candidates[1].parts[1].text) = 0
    /\ Len(response.candidates[1].parts[2].text) > 0
    /\ Len(response.candidates[1].parts[3].text) > 0
    /\ response.candidates[1].parts[2].text # response.candidates[1].parts[3].text
    /\ result = response.candidates[1].parts[2].text

\* the first response, still held while its function call awaits execution
FirstResponseRouted == pc = "AWAITING_TOOL_RESULT" /\ Len(calls) = 1

(* C11: a function call in the first response is acted on only if no part  *)
(* of candidates[0] carries non-empty text; with finish_reason STOP, a     *)
(* text part and a function_call part, tools and tool_manager given, the   *)
(* result is the first text part and execute_tool is not called            *)
C11_Original ==
    FirstResponseRouted => ~HasTextPart(response)

(* C11 as the code has it: with tools and tool_manager given, a            *)
(* function_call part of an unblocked candidates[0] is acted on whether or *)
(* not another part carries text: the first function_call part is handed   *)
(* to the handler, and text extraction never sees such a response          *)
C11_FunctionCallBeforeText ==
    /\ ( /\ FirstResponseRead
         /\ WithTools(gemini_tools) /\ tool_manager
         /\ ~BlockedResponse(response) )
       => ~HasFunctionCallPart(response)
    /\ FirstResponseRouted
       => /\ WithTools(gemini_tools) /\ tool_manager
          /\ HasFunctionCallPart(response)
          /\ function_call =
                response.candidates[1].parts[
                    FirstFunctionCallIndex(response.candidates[1].parts)].function_call
          /\ result = <<>>

\* STOP, a text part before a function_call part: the call is routed
C11_Witness ==
    /\ FirstResponseRouted
    /\ first_finish = FINISH_STOP
    /\ Len(response.candidates[1].parts) >= 2
    /\ Len(response.candidates[1].parts[1].text) > 0
    /\ response.candidates[1].parts[2].function_call.present

(* C12: every second generate_content call is made with a new prompt that  *)
(* has the assembled prompt as an unmodified prefix and contains the tool  *)
(* result; the assembled prompt is the one the first call was made with    *)
(* and stays what the prompt assembly produced                             *)
C12_FollowUpPromptExtendsOriginal ==
    /\ pc # "BUILDING_PROMPT" => full_prompt = BuildPrompt(query, conversation_history)
    /\ Len(calls) >= 1 => calls[1].prompt = full_prompt
    /\ \A i \in 2..Len(calls) :
          calls[i].op = "generate_content"
          => /\ IsPrefix(full_prompt, calls[i].prompt)
             /\ Len(calls[i].prompt) > Len(full_prompt)
             /\ Contains(calls[i].prompt, tool_result)
             /\ calls[i].prompt = follow_up_prompt

\* a second call after a non-empty tool result, with a conversation history
C12_Witness ==
    /\ Len(calls) = 3
    /\ calls[3].op = "generate_content"
    /\ Len(tool_result) > 0
    /\ conversation_history.given /\ Len(conversation_history.value) > 0
    /\ calls[3].prompt # calls[1].prompt

\* r is one of the strings the except clauses of generate_response return
GenerateErrorShaped(r) ==
    \/ r \in {MsgEncodingIssue, MsgErrorGenerating}
    \/ IsPrefix(ErrorGeneratingPrefix, r) /\ Len(r) > Len(ErrorGeneratingPrefix)

\* r is one of the strings the except clauses of the handler return
HandlerErrorShaped(r) ==
    \/ r \in {MsgFunctionEncodingIssue, MsgErrorExecuting}
    \/ IsPrefix(ErrorExecutingPrefix, r) /\ Len(r) > Len(ErrorExecutingPrefix)

(* C13: no generate_content call is retried: when the first call raises    *)
(* the request ends with an error string after exactly one provider call   *)
(* and no tool execution; when the second call raises it ends with an      *)
(* error string after exactly two provider calls                           *)
C13_NoRetry ==
    /\ (exception.type # "none" /\ Len(calls) = 1)
       => /\ pc = "DONE"
          /\ calls[1].op = "generate_content"
          /\ GenerateErrorShaped(result)
    /\ (exception.type # "none" /\ Len(calls) >= 3)
       => /\ pc = "DONE"
          /\ Len(calls) = 3
          /\ CountOp("generate_content") = 2
          /\ CountOp("execute_tool") = 1
          /\ calls[3].op = "generate_content"
          /\ HandlerErrorShaped(result)

\* the first call raised and the request is over after that one call
C13_Witness ==
    /\ pc = "DONE"
    /\ Len(calls) = 1
    /\ exception \in Exceptions
    /\ exception.msg = <<"disk full">>
    /\ result = ErrorGeneratingPrefix \o <<"disk full">>

(* C14: tools are given, the first response has a function_call part, and  *)
(* tool_manager is missing: no tool is executed, no second call is made,   *)
(* and the result is the text extraction of that first response: the       *)
(* blocked message when candidates[0] is blocked, otherwise the first      *)
(* non-empty text (re-encoded, as extraction does) when there is one, and  *)
(* the "Processing your request..." notice when there is none              *)
C14_NoManagerMeansExtraction ==
    ( /\ WithTools(gemini_tools) /\ ~tool_manager
      /\ Len(calls) >= 1 /\ exception.type = "none"
      /\ HasFunctionCallPart(response) )
    => /\ pc = "DONE"
       /\ calls = <<ProviderCall(full_prompt, gemini_tools)>>
       /\ return_site = "generate_extract"
       /\ LET fr == response.candidates[1].finish_reason
          IN  /\ BlockedResponse(response) => result = BlockedMessage(fr)
              /\ (~BlockedResponse(response) /\ HasTextPart(response))
                 => result = Reencode(FirstNonEmptyText(response))
              /\ (~BlockedResponse(response) /\ ~HasTextPart(response))
                 => result = MsgProcessing

\* no tool_manager, a function_call part first and a text part after it
C14_Witness ==
    /\ pc = "DONE"
    /\ WithTools(gemini_tools) /\ ~tool_manager
    /\ Len(calls) = 1
    /\ HasCandidates(response)
    /\ first_finish = FINISH_STOP
    /\ Len(response.candidates[1].parts) >= 2
    /\ response.candidates[1].parts[1].function_call.present
    /\ response.candidates[1].parts[2].text = <<"B", Surrogate>>
    /\ result = <<"B", "?">>

(* C15: _convert_tools_to_gemini_format gives a list of the same length    *)
(* and order as its input, whose i-th entry holds exactly one function     *)
(* declaration with the name, description and schema of the i-th           *)
(* descriptor; repeated descriptors are all kept                           *)
C15_ConversionPreserves ==
    /\ ConvertTools(<<>>) = <<>>
    /\ (pc = "AWAITING_FIRST_RESPONSE" /\ Len(tools.items) > 0)
       => /\ gemini_tools.given
          /\ Len(gemini_tools.items) = Len(tools.items)
          /\ \A i \in 1..Len(tools.items) :
                LET decls == gemini_tools.items[i].function_declarations
                IN  /\ Len(decls) = 1
                    /\ decls[1].name = tools.items[i].name
                    /\ decls[1].description = tools.items[i].description
                    /\ decls[1].parameters = tools.items[i].input_schema

\* two different descriptors in one order, and the same descriptor twice
C15_Witness ==
    /\ pc = "AWAITING_FIRST_RESPONSE"
    /\ Len(tools.items) = 2
    /\ tools.items[1].name = "get_course_outline"
    /\ tools.items[2].name = "get_course_outline"
    /\ tools.items[1].description # tools.items[2].description
    /\ Len(gemini_tools.items) = 2
    /\ gemini_tools.items[1].function_declarations[1].description
          = tools.items[1].description

(* C16: the keys handed to execute_tool are exactly the keys of the raw    *)
(* arguments of the function call, none added and none dropped (no keys    *)
(* when the call has no arguments), and marshaling does not raise          *)
C16_KeysPreserved ==
    /\ pc = "AWAITING_TOOL_RESULT"
       => /\ DOMAIN function_args = RawKeys(function_call.args)
          /\ exception.type = "none"
    /\ \A i \in 1..Len(calls) :
          calls[i].op = "execute_tool"
          => DOMAIN calls[i].kwargs = RawKeys(function_call.args)

\* two fields, one an empty string and one a whole number, reach the tool
C16_Witness ==
    /\ Len(calls) = 2
    /\ calls[2].op = "execute_tool"
    /\ function_call.args.has_fields
    /\ DOMAIN function_call.args.fields = {"query", "lesson_number"}
    /\ function_call.args.fields["query"] = ProtoString(<<>>)
    /\ function_call.args.fields["lesson_number"] = ProtoNumber(3, 0)
    /\ DOMAIN calls[2].kwargs = {"query", "lesson_number"}

\* number of calls of one operation mock_rag_system recorded
CountMock(op) == Cardinality({i \in 1..Len(mock_calls) : mock_calls[i].op = op})

\* the request's session_id is None or the empty string
AbsentOrEmpty(sid) == ~sid.given \/ Len(sid.value) = 0

(* C17: POST /api/query creates a session exactly once when the request    *)
(* has no session_id and answers with the created id; when the request     *)
(* carries a session_id no session is created and that id is answered      *)
C17_Original ==
    /\ (~request.session_id.given /\ http_response.status_code = 200)
       => /\ CountMock("create_session") = 1
          /\ http_response.session_id = mock_calls[1].session_id
    /\ request.session_id.given
       => /\ CountMock("create_session") = 0
          /\ http_response.status_code = 200
             => http_response.session_id = request.session_id.value

(* C17 as the code has it: a session is created, exactly once, when the    *)
(* request's session_id is absent or the empty string, and a successful    *)
(* answer carries the created id; with a non-empty session_id no session   *)
(* is created and a successful answer carries the request's id             *)
C17_SessionCreatedWhenFalsy ==
    /\ CountMock("create_session") <= 1
    /\ (AbsentOrEmpty(request.session_id) /\ endpoint_pc = "AWAITING_RAG")
       => CountMock("create_session") = 1
    /\ (AbsentOrEmpty(request.session_id) /\ http_response.status_code = 200)
       => /\ CountMock("create_session") = 1
          /\ mock_calls[1].op = "create_session"
          /\ mock_calls[1].raised.type = "none"
          /\ http_response.session_id = mock_calls[1].session_id
          /\ mock_calls[2].session_id = mock_calls[1].session_id
    /\ ~AbsentOrEmpty(request.session_id)
       => /\ CountMock("create_session") = 0
          /\ http_response.status_code = 200
             => /\ http_response.session_id = request.session_id.value
                /\ mock_calls[1].session_id = request.session_id.value

\* the request carries the empty string: a session is created and answered
C17_Witness ==
    /\ request.session_id.given
    /\ request.session_id.value = <<>>
    /\ http_response.status_code = 200
    /\ CountMock("create_session") = 1
    /\ http_response.session_id = <<"session_1">>

(* C18: an exception raised by create_session or by the RAG query ends the *)
(* request with HTTP status 500 and the exception's message, str(e), as    *)
(* detail; when create_session raised, the RAG query is never called       *)
C18_ExceptionGives500 ==
    /\ \A i \in 1..Len(mock_calls) :
          mock_calls[i].raised.type # "none"
          => /\ i = Len(mock_calls)
             /\ endpoint_pc = "RESPONDED"
             /\ http_response.status_code = 500
             /\ http_response.detail = StrException(mock_calls[i].raised)
             /\ mock_calls[i].op = "create_session" => CountMock("query") = 0
    /\ http_response.status_code \in {0, 200, 500}
    /\ http_response.status_code = 500
       => mock_calls[Len(mock_calls)].raised.type # "none"

\* create_session raised "Session error": 500 with that detail, no RAG query
C18_Witness ==
    /\ endpoint_pc = "RESPONDED"
    /\ Len(mock_calls) = 1
    /\ mock_calls[1].op = "create_session"
    /\ mock_calls[1].raised.args = <<"Session error">>
    /\ http_response = HTTPException(500, <<"Session error">>)

\* where each call sits in the sequence: generate_content, execute_tool,
\* generate_content
CallsInOrder ==
    /\ Len(calls) <= 3
    /\ \A i \in 1..Len(calls) :
          calls[i].op = IF i = 2 THEN "execute_tool" ELSE "generate_content"
    /\ pc = "AWAITING_TOOL_RESULT"
       => Len(calls) = 1 /\ ~response.is_none /\ exception.type = "none"
    /\ pc = "AWAITING_SECOND_RESPONSE"
       => Len(calls) = 2 /\ exception.type = "none"
    /\ pc = "DONE" => Len(calls) >= 1 /\ Len(result) > 0
    /\ Len(calls) = 3 => pc = "DONE"

(* C19: the calls of one request are totally ordered: execute_tool comes   *)
(* strictly after the first generate_content has returned and strictly     *)
(* before the second, the second generate_content is made only after an    *)
(* execute_tool that returned without raising, and nothing is called once  *)
(* the result is produced                                                  *)
C19_TotalOrder ==
    /\ []CallsInOrder
    /\ [][ /\ (Len(calls) = 1 /\ Len(calls') = 2)
              => /\ pc = "AWAITING_TOOL_RESULT"
                 /\ calls'[2].op = "execute_tool"
           /\ (Len(calls) = 2 /\ Len(calls') = 3)
              => /\ pc = "AWAITING_SECOND_RESPONSE"
                 /\ exception.type = "none"
                 /\ calls'[3].op = "generate_content"
           /\ pc = "DONE" => calls' = calls ]_vars

\* both provider calls and the tool execution happened, in that order
C19_Witness ==
    /\ pc = "DONE"
    /\ Len(calls) = 3
    /\ calls[1].op = "generate_content"
    /\ calls[2].op = "execute_tool"
    /\ calls[3].op = "generate_content"
    /\ return_site = "handler_extract"

(* C20: a first response whose candidates[0] is blocked never leads to a   *)
(* tool execution or a second generate_content call, also when it carries  *)
(* a function_call part and tools and tool_manager are given; the result   *)
(* is the blocked message                                                  *)
C20_BlockedFirstNeverRouted ==
    IsBlocked(first_finish)
    => /\ CountOp("execute_tool") = 0
       /\ CountOp("generate_content") <= 1
       /\ pc # "AWAITING_TOOL_RESULT"
       /\ pc = "DONE" => result = BlockedMessage(first_finish)

(* C21: finish_reason 2, 3 and 4 each give one fixed message, the three    *)
(* messages are pairwise different, and the first response and the second  *)
(* response get the same message for the same finish_reason                *)
C21_BlockedMessagesDistinct ==
    /\ MsgSafety # MsgRecitation
    /\ MsgSafety # MsgOther
    /\ MsgRecitation # MsgOther
    /\ (ExtractionRan /\ BlockedResponse(response))
       => LET fr == response.candidates[1].finish_reason
          IN  /\ fr = 2 => result = MsgSafety
              /\ fr = 3 => result = MsgRecitation
              /\ fr = 4 => result = MsgOther

\* a second response with finish_reason 3 and a text part gets the
\* content-policy message
C21_Witness ==
    /\ SecondResponseRead
    /\ HasCandidates(response)
    /\ response.candidates[1].finish_reason = 3
    /\ HasTextPart(response)
    /\ result = MsgRecitation

\* r with finish_reason STOP on candidates[0], everything else as it is
AsComplete(r) ==
    [r EXCEPT !.candidates = << [r.candidates[1] EXCEPT !.finish_reason = FINISH_STOP] >>]

\* candidates[0] of r has a finish_reason other than 1, 2, 3 and 4
UnrecognizedStatus(r) ==
    HasCandidates(r) /\ r.candidates[1].finish_reason \notin {1, 2, 3, 4}

(* C22: a finish_reason other than 2, 3 and 4 is handled as STOP is: the   *)
(* response is routed or read exactly as the response that differs from it *)
(* only by having finish_reason STOP, and no exception is raised           *)
C22_UnrecognizedAsComplete ==
    UnrecognizedStatus(response)
    => /\ exception.type = "none"
       /\ FirstResponseRouted
          => function_call = RequestedCall(AsComplete(response), tool_manager)
       /\ FirstResponseRead
          => /\ ~RequestedCall(AsComplete(response), tool_manager).present
                \/ ~WithTools(gemini_tools)
             /\ result = ExtractFirst(AsComplete(response))
             /\ HasTextPart(response) => result = Reencode(FirstNonEmptyText(response))
       /\ SecondResponseRead
          => /\ result = ExtractSecond(AsComplete(response), tool_result)
             /\ HasTextPart(response) => result = Reencode(FirstNonEmptyText(response))

\* finish_reason 5 and a text part: the text is the answer
C22_Witness ==
    /\ FirstResponseRead
    /\ HasCandidates(response)
    /\ response.candidates[1].finish_reason = FINISH_MAX_TOKENS
    /\ Len(response.candidates[1].parts) >= 1
    /\ response.candidates[1].parts[1].text = <<"A">>
    /\ result = <<"A">>

(* C23: the first generate_content call is made with tools exactly when    *)
(* the supplied descriptor list is non-empty; with None or an empty list   *)
(* the call is made without tools and without an error; the second call    *)
(* never has tools                                                         *)
C23_ToolsOnFirstCallOnly ==
    /\ pc \notin {"BUILDING_PROMPT", "AWAITING_FIRST_RESPONSE"} => Len(calls) >= 1
    /\ Len(calls) >= 1
       => /\ calls[1].op = "generate_content"
          /\ (tools.given /\ Len(tools.items) > 0)
             => /\ calls[1].tools.given
                /\ Len(calls[1].tools.items) = Len(tools.items)
          /\ ~(tools.given /\ Len(tools.items) > 0) => calls[1].tools = NotOffered
    /\ \A i \in 2..Len(calls) :
          calls[i].op = "generate_content" => calls[i].tools = NotOffered

\* an empty list: the first call went out without tools and was answered
C23_Witness ==
    /\ tools.given
    /\ Len(tools.items) = 0
    /\ Len(calls) = 1
    /\ calls[1].tools = NotOffered
    /\ return_site = "generate_extract"

(* C24: when candidates[0] of the first response has several function_call *)
(* parts, the tool executed is the one the first of them names, with the   *)
(* arguments of that part; no later function_call part is executed         *)
C24_FirstFunctionCallOnly ==
    /\ FirstResponseRouted
       => \E k \in 1..Len(response.candidates[1].parts) :
             /\ response.candidates[1].parts[k].function_call.present
             /\ \A j \in 1..(k - 1) :
                   ~response.candidates[1].parts[j].function_call.present
             /\ function_call = response.candidates[1].parts[k].function_call
             /\ DOMAIN function_args
                   = RawKeys(response.candidates[1].parts[k].function_call.args)
    /\ CountOp("execute_tool") <= 1
    /\ \A i \in 1..Len(calls) :
          calls[i].op = "execute_tool"
          => /\ calls[i].name = function_call.name
             /\ calls[i].kwargs = function_args
             /\ calls[i].name = "search_course_content"
                => calls[i].kwargs = [k \in {"query"} |-> PyStr(<<"m", "c", "p">>)]
             /\ calls[i].name = "get_course_outline" => calls[i].kwargs = NoKwargs

\* get_course_outline first, search_course_content second: the first one is
\* the call handed to the handler, marshaled without arguments
C24_Witness ==
    /\ FirstResponseRouted
    /\ Len(response.candidates[1].parts) >= 2
    /\ response.candidates[1].parts[1].function_call.present
    /\ response.candidates[1].parts[1].function_call.name = "get_course_outline"
    /\ response.candidates[1].parts[2].function_call.present
    /\ response.candidates[1].parts[2].function_call.name = "search_course_content"
    /\ function_call.name = "get_course_outline"
    /\ function_args = NoKwargs

\* reading r.text raises
QuickTextRaises(r) == ~r.is_none /\ r.text.has /\ r.text.raises

\* candidates[0] of r gives neither a blocked message nor a text
NoCandidateText(r) ==
    ~HasCandidates(r) \/ (~BlockedResponse(r) /\ ~HasTextPart(r))

(* C25: an exception raised by response.text is swallowed and counts as no *)
(* text: on the first response the result is then the default apology, on  *)
(* the second response the fallback with the tool result; it is never one  *)
(* of the error strings                                                    *)
C25_QuickTextFailureSwallowed ==
    /\ ( /\ FirstResponseRead
         /\ QuickTextRaises(response)
         /\ NoCandidateText(response)
         /\ ~HasFunctionCallPart(response) )
       => /\ result = MsgApology
          /\ exception.type = "none"
    /\ ( /\ SecondResponseRead
         /\ QuickTextRaises(response)
         /\ NoCandidateText(response) )
       => /\ result = SearchResultsPrefix \o tool_result
          /\ exception.type = "none"
    /\ (ExtractionRan /\ QuickTextRaises(response))
       => /\ ~GenerateErrorShaped(result)
          /\ ~HandlerErrorShaped(result)

\* the second response has no candidates and its response.text raises
C25_Witness ==
    /\ SecondResponseRead
    /\ ~HasCandidates(response)
    /\ QuickTextRaises(response)
    /\ tool_result = <<"found content Y">>
    /\ result = SearchResultsPrefix \o <<"found content Y">>

\* v is a protobuf Value whose kind is string_value
StringTyped(v) == v = ProtoString(v.string_value)

(* C26: every string-typed raw argument reaches execute_tool unchanged     *)
(* under its key, the empty string included                                *)
C26_StringsPassThrough ==
    \A i \in 1..Len(calls) :
        (calls[i].op = "execute_tool" /\ function_call.args.has_fields)
        => \A k \in DOMAIN function_call.args.fields :
              StringTyped(function_call.args.fields[k])
              => /\ k \in DOMAIN calls[i].kwargs
                 /\ calls[i].kwargs[k] = PyStr(function_call.args.fields[k].string_value)

\* the conversation section the prompt must hold: the label and the summary
\* when a non-empty summary was passed, nothing otherwise
ExpectedSection ==
    IF conversation_history.given /\ Len(conversation_history.value) > 0
    THEN <<"\n\nPrevious conversation:\n">> \o conversation_history.value
    ELSE <<>>

(* C27: the assembled prompt starts with the system instruction block,     *)
(* ends with the "User question:" label followed by the query as passed,   *)
(* and holds the "Previous conversation:" label with the summary between   *)
(* the two exactly when a (non-empty) summary was passed; nothing else is  *)
(* in the prompt                                                           *)
C27_PromptLayout ==
    pc = "AWAITING_FIRST_RESPONSE"
    => LET head == Len(SYSTEM_PROMPT)
           mid  == Len(ExpectedSection)
       IN  /\ Len(full_prompt) = head + mid + 1 + Len(query)
           /\ SubSeq(full_prompt, 1, head) = SYSTEM_PROMPT
           /\ SubSeq(full_prompt, head + 1, head + mid) = ExpectedSection
           /\ full_prompt[head + mid + 1] = "\n\nUser question: "
           /\ SubSeq(full_prompt, head + mid + 2, Len(full_prompt)) = query

\* a summary and a query that itself holds the conversation label
C27_Witness ==
    /\ pc = "AWAITING_FIRST_RESPONSE"
    /\ conversation_history.value = <<"User: hi", Surrogate>>
    /\ query = <<"\n\nPrevious conversation:\n", Surrogate>>
    /\ Len(full_prompt) = 7
    /\ full_prompt[2] = "\n\nPrevious conversation:\n"
    /\ full_prompt[5] = "\n\nUser question: "
    /\ full_prompt[7] = Surrogate

\* the prompt request t assembles when it runs alone
SoloPrompt(t) ==
    SYSTEM_PROMPT
    \o (IF ThreadHistory(t).given /\ Len(ThreadHistory(t).value) > 0
        THEN <<"\n\nPrevious conversation:\n">> \o ThreadHistory(t).value
        ELSE <<>>)
    \o <<"\n\nUser question: ">> \o ThreadQuery(t)

\* the answer a request gives when it runs alone and receives the responses,
\* the tool result and the exception that th received
SoloResult(th) ==
    IF th.return_site = "generate_extract" THEN ExtractFirst(th.first_response)
    ELSE IF th.return_site = "generate_except" THEN GenerateExcept(th.exception)
    ELSE IF th.return_site = "handler_extract"
    THEN ExtractSecond(th.second_response, th.tool_result)
    ELSE HandlerExcept(th.exception)

(* C28: in every interleaving of two requests on one AIGenerator, each     *)
(* request's prompt, follow-up prompt and result are what the request      *)
(* gives alone with the same responses and tool result; the generator's    *)
(* attributes are never written, and every generate_content call is made   *)
(* with temperature 0 and max_output_tokens 800                            *)
C28_RequestsIsolated ==
    /\ generator = GeneratorAttributes
    /\ \A t \in RequestIds :
          LET th == threads[t]
          IN  /\ th.pc # "BUILDING_PROMPT" => th.full_prompt = SoloPrompt(t)
              /\ (th.pc = "AWAITING_SECOND_RESPONSE" \/ Len(th.configs) = 2)
                 => th.follow_up_prompt
                      = SoloPrompt(t) \o <<"\n\nFunction call result: ">> \o th.tool_result
                        \o FollowUpInstruction
              /\ th.pc = "DONE" => th.result = SoloResult(th)
              /\ \A i \in 1..Len(th.configs) :
                    /\ th.configs[i].temperature = 0
                    /\ th.configs[i].max_output_tokens = 800

\* request 1 waits for its second response while request 2 has answered
\* from its own first response
C28_Witness ==
    /\ threads[1].pc = "AWAITING_SECOND_RESPONSE"
    /\ threads[1].tool_result = <<"found content Y">>
    /\ threads[2].pc = "DONE"
    /\ threads[2].result = <<"A">>
    /\ threads[1].full_prompt # threads[2].full_prompt
    /\ Len(threads[1].configs) = 1
    /\ Len(threads[2].configs) = 1

\* r starts with the words "Error executing function"
StartsWithErrorExecuting(r) ==
    Len(r) > 0 /\ r[1] \in {ErrorExecutingPrefix[1], MsgErrorExecuting[1]}

(* C29: the answer starts with "Error executing function" only when        *)
(* execute_tool raised; a second generate_content call that raises after   *)
(* the tool returned is not answered with that string                      *)
C29_ErrorExecutingOnlyForTool ==
    /\ (pc = "DONE" /\ StartsWithErrorExecuting(result)) => ToolRaised
    /\ ( /\ pc = "DONE"
         /\ Len(calls) = 3
         /\ exception.type # "none" )
       => ~StartsWithErrorExecuting(result)

====
